---- MODULE Spec2Model ----
(***************************************************************************)
(* QuickRead (src/quickread.py): the RSVP playback engine of QuickReadApp, *)
(* its tokenizer, the ORP resolver and the ORP display widget.             *)
(*                                                                         *)
(* Text is a sequence of one-character strings.  A delay multiplier is     *)
(* kept in tenths (1.0 -> 10, 1.5 -> 15, 2.0 -> 20).  A method of          *)
(* QuickReadApp is an operator from the application's state (a record of   *)
(* its fields, its QTimer and its widgets) to the state it leaves; an      *)
(* action is one slot invocation by Qt's event loop.                       *)
(***************************************************************************)
EXTENDS Integers, Sequences, FiniteSets, TLC

(***************************************************************************)
(* Program constants.                                                      *)
(***************************************************************************)
DEFAULT_WPM == 300
MIN_WPM == 100
MAX_WPM == 1000
WPM_STEP == 25
DEFAULT_WORDS_PER_FLASH == 1
MAX_WORDS_PER_FLASH == 5
REWIND_WORDS == 10
FORWARD_WORDS == 10
\* in tenths
COMMA_DELAY_MULTIPLIER == 15
PERIOD_DELAY_MULTIPLIER == 20
MULTI_WORD_DELAY_MULTIPLIER == 12
PLAIN_DELAY_MULTIPLIER == 10
\* 60000 ms per minute, the numerator of base_delay
MS_PER_MINUTE == 60000
\* the divisor of the seek step: len(tokens) // 20
SEEK_DIVISOR == 20
\* progress_bar.setValue(100) on completion
PROGRESS_DONE == 100

(***************************************************************************)
(* Bounds of the model.                                                    *)
(***************************************************************************)
\* the longest text offered to start_reading, in words
MaxWords == 3
\* the largest entry of wpf_combo that is selected
MaxFlashChoice == 2
\* how many WPM_STEPs the Up and Down keys take the speed from the default
MaxKeySteps == 1
\* the lengths, in words, of the two texts the seeks are followed on: the
\* shorter leaves room for a fixed step, a twentieth of the longer exceeds it
SeekWords == 13
LongWords == 220
\* the most word characters of the strings the ORP functions are applied to
MaxLetters == 20

Min(a, b) == IF a < b THEN a ELSE b
Max(a, b) == IF a > b THEN a ELSE b

(***************************************************************************)
(* Character classes of Python's re: \s, \w, [.!?] and [,;:].              *)
(***************************************************************************)
SpaceChars == {" ", "\t", "\n"}
PeriodChars == {".", "!", "?"}
CommaChars == {",", ";", ":"}
OtherPunct == {"'", "-", "(", ")"}
IsSpace(c) == c \in SpaceChars
IsWordChar(c) == c \notin (SpaceChars \cup PeriodChars \cup CommaChars \cup OtherPunct)

(***************************************************************************)
(* str.strip(), re.sub(r'\s+', ' ', ...), str.split(), " ".join(...)       *)
(***************************************************************************)
RECURSIVE LStrip(_)
LStrip(s) == IF s # <<>> /\ IsSpace(Head(s)) THEN LStrip(Tail(s)) ELSE s

RECURSIVE RStrip(_)
RStrip(s) ==
    IF s # <<>> /\ IsSpace(s[Len(s)]) THEN RStrip(SubSeq(s, 1, Len(s) - 1)) ELSE s

Strip(s) == RStrip(LStrip(s))

\* the length of the longest whitespace-free prefix of s
RECURSIVE WordEnd(_)
WordEnd(s) == IF s = <<>> \/ IsSpace(Head(s)) THEN 0 ELSE 1 + WordEnd(Tail(s))

\* each run of whitespace becomes one space: its first character is
\* replaced by a space, its other characters are dropped
CollapseWhitespace(s) ==
    LET Kept(i) == ~IsSpace(s[i]) \/ i = 1 \/ ~IsSpace(s[i - 1])
        marked == [i \in 1..Len(s) |->
                      [keep |-> Kept(i), char |-> IF IsSpace(s[i]) THEN " " ELSE s[i]]]
        kept == SelectSeq(marked, LAMBDA m : m.keep)
    IN  [i \in 1..Len(kept) |-> kept[i].char]

\* the maximal whitespace-free runs of s, in order
Split(s) ==
    LET starts == SelectSeq([i \in 1..Len(s) |-> i],
                            LAMBDA i : ~IsSpace(s[i]) /\ (i = 1 \/ IsSpace(s[i - 1])))
    IN  [k \in 1..Len(starts) |->
            SubSeq(s, starts[k], starts[k] + WordEnd(SubSeq(s, starts[k], Len(s))) - 1)]

RECURSIVE Join(_)
Join(ws) ==
    IF ws = <<>> THEN <<>>
    ELSE IF Len(ws) = 1 THEN ws[1]
    ELSE ws[1] \o <<" ">> \o Join(Tail(ws))

(***************************************************************************)
(* tokenize_text                                                           *)
(***************************************************************************)
\* the multiplier looked up with re.search without the anchor $
DelayMultiplierOf_unanchored(word) ==
    IF \E i \in 1..Len(word) : word[i] \in PeriodChars THEN PERIOD_DELAY_MULTIPLIER
    ELSE IF \E i \in 1..Len(word) : word[i] \in CommaChars THEN COMMA_DELAY_MULTIPLIER
    ELSE PLAIN_DELAY_MULTIPLIER

DelayMultiplierOf(word) ==
    IF word[Len(word)] \in PeriodChars THEN PERIOD_DELAY_MULTIPLIER
    ELSE IF word[Len(word)] \in CommaChars THEN COMMA_DELAY_MULTIPLIER
    ELSE PLAIN_DELAY_MULTIPLIER

\* the loop over raw_words: a token for each word that is not blank
\* the loop over raw_words keeping only the word characters of a word
TokensOf_letters_only(raw_words) ==
    LET kept == SelectSeq(raw_words, LAMBDA word : SelectSeq(word, IsWordChar) # <<>>)
    IN  [i \in 1..Len(kept) |->
            [word |-> SelectSeq(kept[i], IsWordChar),
             delay_multiplier |-> DelayMultiplierOf(kept[i])]]

TokensOf(raw_words) ==
    LET kept == SelectSeq(raw_words, LAMBDA word : word # <<>> /\ Strip(word) # <<>>)
    IN  [i \in 1..Len(kept) |->
            [word |-> Strip(kept[i]), delay_multiplier |-> DelayMultiplierOf(kept[i])]]

tokenize_text(text0) ==
    LET text == CollapseWhitespace(Strip(text0))
    IN  IF text = <<>> THEN <<>> ELSE TokensOf(Split(text))

(***************************************************************************)
(* calculate_orp_index, find_orp_in_word                                   *)
(***************************************************************************)
LettersOnly(word) == SelectSeq(word, IsWordChar)

\* calculate_orp_index counting every character of the string
calculate_orp_index_all_chars(word) ==
    LET length == Len(word)
    IN  IF length <= 1 THEN 0
        ELSE IF length <= 5 THEN 1
        ELSE IF length <= 9 THEN 2
        ELSE IF length <= 13 THEN 3
        ELSE length \div 4

calculate_orp_index(word) ==
    LET length == Len(LettersOnly(word))
    IN  IF length <= 1 THEN 0
        ELSE IF length <= 5 THEN 1
        ELSE IF length <= 9 THEN 2
        ELSE IF length <= 13 THEN 3
        ELSE length \div 4

\* the loop of find_orp_in_word from 0-based index i with letter_count letters seen
RECURSIVE OrpScan(_, _, _, _)
OrpScan(word, i, letter_count, orp_letter_index) ==
    IF i >= Len(word) THEN 0
    ELSE IF IsWordChar(word[i + 1])
         THEN IF letter_count = orp_letter_index THEN i
              ELSE OrpScan(word, i + 1, letter_count + 1, orp_letter_index)
         ELSE OrpScan(word, i + 1, letter_count, orp_letter_index)

\* find_orp_in_word returning the rank, not mapped back to the string
find_orp_in_word_unmapped(word) == calculate_orp_index(word)

find_orp_in_word(word) == OrpScan(word, 0, 0, calculate_orp_index(word))

(***************************************************************************)
(* ORPDisplayWidget: the three labels, as [left, orp, right].              *)
(***************************************************************************)
\* Python's word[a:b] for 0 <= a, with b clipped to len(word)
Slice(word, a, b) == SubSeq(word, a + 1, Min(b, Len(word)))

DONE_MESSAGE == <<"Done!">>

Cleared == [left |-> <<>>, orp |-> <<>>, right |-> <<>>]

display_message(message) == [left |-> <<>>, orp |-> message, right |-> <<>>]

\* display_word with the right part taken from the ORP on
display_word_right_from_orp(word) ==
    IF word = <<>> THEN Cleared
    ELSE LET orp_index == find_orp_in_word(word)
         IN  [left  |-> IF orp_index > 0 THEN Slice(word, 0, orp_index) ELSE <<>>,
              orp   |-> IF orp_index < Len(word) THEN <<word[orp_index + 1]>> ELSE <<>>,
              right |-> IF orp_index + 1 < Len(word)
                        THEN Slice(word, orp_index, Len(word)) ELSE <<>>]

display_word(word) ==
    IF word = <<>> THEN Cleared
    ELSE LET orp_index == find_orp_in_word(word)
         IN  [left  |-> IF orp_index > 0 THEN Slice(word, 0, orp_index) ELSE <<>>,
              orp   |-> IF orp_index < Len(word) THEN <<word[orp_index + 1]>> ELSE <<>>,
              right |-> IF orp_index + 1 < Len(word)
                        THEN Slice(word, orp_index + 1, Len(word)) ELSE <<>>]

\* display_phrase centred on the lower of two middle words
display_phrase_lower_middle(words) ==
    IF words = <<>> THEN Cleared
    ELSE IF Len(words) = 1 THEN display_word(words[1])
    ELSE LET middle_idx == (Len(words) - 1) \div 2
             middle_word == words[middle_idx + 1]
             orp_index == find_orp_in_word(middle_word)
             left_words == SubSeq(words, 1, middle_idx)
             left_part_middle ==
                 IF orp_index > 0 THEN Slice(middle_word, 0, orp_index) ELSE <<>>
             left_joined == Join(left_words)
             left_text ==
                 IF left_joined # <<>> /\ left_part_middle # <<>>
                 THEN left_joined \o <<" ">> \o left_part_middle
                 ELSE IF left_part_middle # <<>> THEN left_part_middle
                 ELSE left_joined
             orp_char ==
                 IF orp_index < Len(middle_word) THEN <<middle_word[orp_index + 1]>>
                 ELSE <<>>
             right_part_middle ==
                 IF orp_index + 1 < Len(middle_word)
                 THEN Slice(middle_word, orp_index + 1, Len(middle_word)) ELSE <<>>
             right_words == SubSeq(words, middle_idx + 2, Len(words))
             right_text ==
                 IF right_part_middle # <<>> /\ right_words # <<>>
                 THEN right_part_middle \o <<" ">> \o Join(right_words)
                 ELSE IF right_words # <<>> THEN Join(right_words)
                 ELSE right_part_middle
         IN  [left |-> left_text, orp |-> orp_char, right |-> right_text]

display_phrase(words) ==
    IF words = <<>> THEN Cleared
    ELSE IF Len(words) = 1 THEN display_word(words[1])
    ELSE LET middle_idx == Len(words) \div 2
             middle_word == words[middle_idx + 1]
             orp_index == find_orp_in_word(middle_word)
             left_words == SubSeq(words, 1, middle_idx)
             left_part_middle ==
                 IF orp_index > 0 THEN Slice(middle_word, 0, orp_index) ELSE <<>>
             left_joined == Join(left_words)
             left_text ==
                 IF left_joined # <<>> /\ left_part_middle # <<>>
                 THEN left_joined \o <<" ">> \o left_part_middle
                 ELSE IF left_part_middle # <<>> THEN left_part_middle
                 ELSE left_joined
             orp_char ==
                 IF orp_index < Len(middle_word) THEN <<middle_word[orp_index + 1]>>
                 ELSE <<>>
             right_part_middle ==
                 IF orp_index + 1 < Len(middle_word)
                 THEN Slice(middle_word, orp_index + 1, Len(middle_word)) ELSE <<>>
             right_words == SubSeq(words, middle_idx + 2, Len(words))
             right_text ==
                 IF right_part_middle # <<>> /\ right_words # <<>>
                 THEN right_part_middle \o <<" ">> \o Join(right_words)
                 ELSE IF right_words # <<>> THEN Join(right_words)
                 ELSE right_part_middle
         IN  [left |-> left_text, orp |-> orp_char, right |-> right_text]

(***************************************************************************)
(* The texts the input box may hold when start_reading is invoked: the     *)
(* first n words of a fixed passage joined by single spaces; and, padded   *)
(* with a leading tab, double spaces and a trailing newline, no word at    *)
(* all or the MaxWords words after the first one.                          *)
(***************************************************************************)
Passage ==
    << <<"H", "i">>,
       <<"t", "h", "e", "r", "e", ".">>,
       <<"I", "t", "'", "s">>,
       <<"n", "i", "c", "e", ",">>,
       <<"o", "k", "?">>,
       <<"-", "-">>,
       <<"w", "e", "l", "l", "-", "k", "n", "o", "w", "n">>,
       <<"a">>,
       <<"u", "n", "c", "h", "a", "r", "a", "c", "t", "e", "r", "i", "s", "t", "i", "c", ";">>,
       <<"g", "o", "!">>,
       <<"e", "n", "d", ":">>,
       <<"(", "u", "p", ")">> >>

PassageWord(i) == Passage[((i - 1) % Len(Passage)) + 1]

\* the words i..n of the passage, sep between them
RECURSIVE JoinWith(_, _, _)
JoinWith(n, i, sep) ==
    IF i > n THEN <<>>
    ELSE IF i = n THEN PassageWord(i)
    ELSE JoinWith((i + n) \div 2, i, sep) \o sep \o JoinWith(n, ((i + n) \div 2) + 1, sep)

PlainText(n) == JoinWith(n, 1, <<" ">>)
PaddedText(n) == <<"\t">> \o JoinWith(n + 1, 2, <<" ", " ">>) \o <<"\n">>

Texts == {PlainText(n) : n \in 0..MaxWords} \cup {PaddedText(0), PaddedText(MaxWords)}

\* the texts the seeks are followed on
LongTexts == {PlainText(SeekWords), PlainText(LongWords)}

\* the values a WPM slider may be dragged to (QSlider keeps them in MIN_WPM..MAX_WPM)
FAST_WPM == 600
WpmChoices == {MIN_WPM, FAST_WPM, MAX_WPM}

\* slider values at which int() finds a double below a whole delay
BRISK_WPM == 720
TruncatedWpmChoices == {FAST_WPM, BRISK_WPM}

\* the entries of wpf_combo
WpfChoices == 1..Min(MaxFlashChoice, MAX_WORDS_PER_FLASH)

\* the speeds the Up and Down keys are followed to: the slider stops, and the
\* speeds within MaxKeySteps steps of the default; a key is followed when the
\* speed it aims at, kept within the slider's range, is one of them
KeyReach(v) ==
    \/ v \in WpmChoices
    \/ /\ v - DEFAULT_WPM <= MaxKeySteps * WPM_STEP
       /\ DEFAULT_WPM - v <= MaxKeySteps * WPM_STEP

(***************************************************************************)
(* The state of QuickReadApp.  timer is the pending timeouts of            *)
(* self.timer, each as the interval in ms it was started with.  flash and  *)
(* warning record what the running slot handed to the display widget and   *)
(* to QMessageBox.                                                         *)
(***************************************************************************)
VARIABLES tokens, current_index, is_playing, is_paused, wpm, words_per_flash,
          timer, display, progress_bar,
          flash, warning, last, log, run_clean, call

vars == <<tokens, current_index, is_playing, is_paused, wpm, words_per_flash,
          timer, display, progress_bar,
          flash, warning, last, log, run_clean, call>>

NoFlash == [kind |-> "none", from |-> 0, to |-> 0]

\* the application's fields as one record
App ==
    [tokens |-> tokens, current_index |-> current_index, is_playing |-> is_playing,
     is_paused |-> is_paused, wpm |-> wpm, words_per_flash |-> words_per_flash,
     timer |-> timer,
     display |-> display, progress_bar |-> progress_bar,
     flash |-> NoFlash, warning |-> "none"]

(***************************************************************************)
(* QTimer: start() on a running timer restarts it, so one timeout at most  *)
(* is pending; stop() leaves none.                                         *)
(***************************************************************************)
timer_start(s, msec) == [s EXCEPT !.timer = <<msec>>]
timer_stop(s) == [s EXCEPT !.timer = <<>>]

(***************************************************************************)
(* IEEE doubles: the products below are truncated by int(); for these      *)
(* arguments the double falls just short of the exact integer value.       *)
(***************************************************************************)
\* (current_index, len(tokens)) with int((i / n) * 100) = 100 * i \div n - 1, n < 400
ProgressShortfall ==
    { <<29, 50>>, <<29, 100>>, <<57, 100>>, <<58, 100>>, <<87, 150>>, <<58, 200>>,
      <<114, 200>>, <<116, 200>>, <<145, 250>>, <<87, 300>>, <<171, 300>>,
      <<174, 300>>, <<203, 350>> }

\* (wpm, multiplier) with int(60000 / wpm * m * 1.2) one below the exact floor
DelayShortfall ==
    { <<108, 15>>, <<180, 10>>, <<180, 20>>, <<216, 15>>, <<360, 10>>, <<360, 20>>,
      <<432, 15>>, <<675, 15>>, <<720, 10>>, <<720, 20>>, <<864, 15>> }

\* int(progress) of update_progress
ProgressPercent(i, n) ==
    ((100 * i) \div n) - (IF <<i, n>> \in ProgressShortfall THEN 1 ELSE 0)

\* the delay without the punctuation multiplier
NextDelay_plain(w, max_delay_multiplier, wpf) ==
    IF wpf > 1
    THEN (MS_PER_MINUTE * MULTI_WORD_DELAY_MULTIPLIER) \div (w * 10)
    ELSE MS_PER_MINUTE \div w

\* int(delay) of display_next_word
NextDelay(w, max_delay_multiplier, wpf) ==
    IF wpf > 1
    THEN ((MS_PER_MINUTE * max_delay_multiplier * MULTI_WORD_DELAY_MULTIPLIER)
              \div (w * 100))
         - (IF <<w, max_delay_multiplier>> \in DelayShortfall THEN 1 ELSE 0)
    ELSE (MS_PER_MINUTE * max_delay_multiplier) \div (w * 10)

RECURSIVE MaxMultiplier(_)
MaxMultiplier(flash_tokens) ==
    IF Len(flash_tokens) = 1 THEN flash_tokens[1].delay_multiplier
    ELSE Max(flash_tokens[1].delay_multiplier, MaxMultiplier(Tail(flash_tokens)))

WordsOf(flash_tokens) == [i \in 1..Len(flash_tokens) |-> flash_tokens[i].word]

(***************************************************************************)
(* QuickReadApp: reading control.                                          *)
(***************************************************************************)
\* update_progress rounding the percentage up instead of truncating it
update_progress_rounds_up(s) ==
    IF s.tokens = <<>> THEN s
    ELSE [s EXCEPT !.progress_bar =
              (100 * s.current_index + Len(s.tokens) - 1) \div Len(s.tokens)]

update_progress(s) ==
    IF s.tokens = <<>> THEN s
    ELSE [s EXCEPT !.progress_bar = ProgressPercent(s.current_index, Len(s.tokens))]

\* the words tokens[from:to] handed to the ORP display
show_flash(s, from, to) ==
    LET words == WordsOf(SubSeq(s.tokens, from + 1, to))
    IN  [s EXCEPT !.display = IF Len(words) = 1 THEN display_word(words[1])
                              ELSE display_phrase(words),
                  !.flash = [kind |-> "flash", from |-> from, to |-> to]]

show_current_word(s) ==
    IF s.current_index >= Len(s.tokens) THEN s
    ELSE show_flash(s, s.current_index,
                    Min(s.current_index + s.words_per_flash, Len(s.tokens)))

\* display_next_word at the end of the stream, without its timer.stop()
finish_reading_keeps_timer(s) ==
    [s EXCEPT !.is_playing = FALSE,
              !.display = display_message(DONE_MESSAGE),
              !.flash = [kind |-> "message", from |-> 0, to |-> 0],
              !.progress_bar = PROGRESS_DONE]

\* display_next_word at the end of the stream: "Finished reading"
\* display_next_word at the end of the stream, leaving is_playing set
finish_reading_keeps_playing(s) ==
    [timer_stop(s) EXCEPT !.display = display_message(DONE_MESSAGE),
                          !.flash = [kind |-> "message", from |-> 0, to |-> 0],
                          !.progress_bar = PROGRESS_DONE]

finish_reading(s) ==
    [timer_stop(s) EXCEPT !.is_playing = FALSE,
                          !.display = display_message(DONE_MESSAGE),
                          !.flash = [kind |-> "message", from |-> 0, to |-> 0],
                          !.progress_bar = PROGRESS_DONE]

\* display_next_word before the end, moving on by one word whatever the flash held
show_next_flash_one_word(s) ==
    LET end_index == Min(s.current_index + s.words_per_flash, Len(s.tokens))
        flash_tokens == SubSeq(s.tokens, s.current_index + 1, end_index)
        shown == show_flash(s, s.current_index, end_index)
        moved == update_progress([shown EXCEPT !.current_index = s.current_index + 1])
    IN  timer_start(moved,
                    NextDelay(s.wpm, MaxMultiplier(flash_tokens), s.words_per_flash))

\* display_next_word before the end, taking words_per_flash words past the end
show_next_flash_past_end(s) ==
    LET end_index == Min(s.current_index + s.words_per_flash, Len(s.tokens))
        flash_tokens == SubSeq(s.tokens, s.current_index + 1, end_index)
        shown == show_flash(s, s.current_index, end_index)
        moved == update_progress([shown EXCEPT !.current_index =
                                     s.current_index + s.words_per_flash])
    IN  timer_start(moved,
                    NextDelay(s.wpm, MaxMultiplier(flash_tokens), s.words_per_flash))

\* display_next_word before the end of the stream
show_next_flash(s) ==
    LET end_index == Min(s.current_index + s.words_per_flash, Len(s.tokens))
        flash_tokens == SubSeq(s.tokens, s.current_index + 1, end_index)
        shown == show_flash(s, s.current_index, end_index)
        moved == update_progress([shown EXCEPT !.current_index = end_index])
    IN  timer_start(moved,
                    NextDelay(s.wpm, MaxMultiplier(flash_tokens), s.words_per_flash))

\* display_next_word with resume_reading's "Restart if at end" when not playing
display_next_word_restarts(s) ==
    IF s.current_index >= Len(s.tokens)
    THEN IF s.is_playing \/ s.tokens = <<>> THEN finish_reading(s)
         ELSE show_next_flash([s EXCEPT !.current_index = 0])
    ELSE show_next_flash(s)

display_next_word(s) ==
    IF s.current_index >= Len(s.tokens) THEN finish_reading(s) ELSE show_next_flash(s)

\* resume_reading without its "Restart if at end"
resume_reading_no_restart(s) ==
    display_next_word([s EXCEPT !.is_playing = TRUE, !.is_paused = FALSE])

\* resume_reading without its call of display_next_word
resume_reading_no_flash(s) ==
    LET s1 == IF s.current_index >= Len(s.tokens)
              THEN [s EXCEPT !.current_index = 0] ELSE s
    IN  [s1 EXCEPT !.is_playing = TRUE, !.is_paused = FALSE]

resume_reading(s) ==
    LET s1 == IF s.current_index >= Len(s.tokens)
              THEN [s EXCEPT !.current_index = 0] ELSE s
    IN  display_next_word([s1 EXCEPT !.is_playing = TRUE, !.is_paused = FALSE])

\* pause_reading without its timer.stop()
pause_reading_keeps_timer(s) == [s EXCEPT !.is_playing = FALSE, !.is_paused = TRUE]

\* pause_reading moving the position back to the start of the stream
pause_reading_rewinds(s) ==
    [timer_stop(s) EXCEPT !.is_playing = FALSE, !.is_paused = TRUE, !.current_index = 0]

pause_reading(s) == [timer_stop(s) EXCEPT !.is_playing = FALSE, !.is_paused = TRUE]

toggle_play_pause(s) ==
    IF s.tokens = <<>> THEN s
    ELSE IF s.is_playing THEN pause_reading(s)
    ELSE resume_reading(s)

\* stop_reading without its reset of is_paused
stop_reading_keeps_paused(s) ==
    [timer_stop(s) EXCEPT !.is_playing = FALSE,
                          !.current_index = 0, !.display = Cleared,
                          !.flash = [kind |-> "clear", from |-> 0, to |-> 0],
                          !.progress_bar = 0]

stop_reading(s) ==
    [timer_stop(s) EXCEPT !.is_playing = FALSE, !.is_paused = FALSE,
                          !.current_index = 0, !.display = Cleared,
                          !.flash = [kind |-> "clear", from |-> 0, to |-> 0],
                          !.progress_bar = 0]

\* start_reading storing the tokens before it looks at the text
start_reading_clears_stream(s, text_input) ==
    LET text == Strip(text_input)
        tokenized == [s EXCEPT !.tokens = tokenize_text(text)]
        reset == [tokenized EXCEPT !.current_index = 0, !.is_playing = FALSE,
                                   !.is_paused = FALSE, !.progress_bar = 0,
                                   !.display = Cleared,
                                   !.flash = [kind |-> "clear", from |-> 0, to |-> 0]]
    IN  IF text = <<>> THEN [tokenized EXCEPT !.warning = "No Text"]
        ELSE toggle_play_pause(reset)

\* start_reading without its closing toggle_play_pause()
start_reading_no_autostart(s, text_input) ==
    LET text == Strip(text_input)
        tokenized == [s EXCEPT !.tokens = tokenize_text(text)]
        reset == [tokenized EXCEPT !.current_index = 0, !.is_playing = FALSE,
                                   !.is_paused = FALSE, !.progress_bar = 0,
                                   !.display = Cleared,
                                   !.flash = [kind |-> "clear", from |-> 0, to |-> 0]]
    IN  IF text = <<>> THEN [s EXCEPT !.warning = "No Text"]
        ELSE IF tokenized.tokens = <<>> THEN [tokenized EXCEPT !.warning = "No Words"]
        ELSE reset

start_reading(s, text_input) ==
    LET text == Strip(text_input)
        tokenized == [s EXCEPT !.tokens = tokenize_text(text)]
        reset == [tokenized EXCEPT !.current_index = 0, !.is_playing = FALSE,
                                   !.is_paused = FALSE, !.progress_bar = 0,
                                   !.display = Cleared,
                                   !.flash = [kind |-> "clear", from |-> 0, to |-> 0]]
    IN  IF text = <<>> THEN [s EXCEPT !.warning = "No Text"]
        ELSE IF tokenized.tokens = <<>> THEN [tokenized EXCEPT !.warning = "No Words"]
        ELSE toggle_play_pause(reset)

\* the tail of rewind and forward, once current_index is moved
\* the tail of rewind and forward calling display_next_word whether the
\* engine plays or not
seek_show_always_ticks(s) == display_next_word(timer_stop(update_progress(s)))

\* the tail of rewind and forward calling show_current_word whether the
\* engine plays or not
seek_show_never_ticks(s) == show_current_word(update_progress(s))

seek_show(s) ==
    LET s1 == update_progress(s)
    IN  IF s1.is_playing THEN display_next_word(timer_stop(s1))
        ELSE show_current_word(s1)

\* the step of rewind without the words per flash
rewind_amount_single(s) == Max(REWIND_WORDS, Len(s.tokens) \div SEEK_DIVISOR)

rewind_amount(s) == Max(REWIND_WORDS, Len(s.tokens) \div SEEK_DIVISOR) * s.words_per_flash

\* the step of forward without the twentieth of the stream
forward_amount_fixed(s) == FORWARD_WORDS * s.words_per_flash

forward_amount(s) == Max(FORWARD_WORDS, Len(s.tokens) \div SEEK_DIVISOR) * s.words_per_flash

\* rewind adding its step to the position instead of subtracting it
rewind_adds(s) ==
    IF s.tokens = <<>> THEN s
    ELSE seek_show([s EXCEPT !.current_index = Max(0, s.current_index + rewind_amount(s))])

rewind(s) ==
    IF s.tokens = <<>> THEN s
    ELSE seek_show([s EXCEPT !.current_index = Max(0, s.current_index - rewind_amount(s))])

\* forward without the clamp to the last token
forward_unclamped(s) ==
    IF s.tokens = <<>> THEN s
    ELSE seek_show([s EXCEPT !.current_index = s.current_index + forward_amount(s)])

\* forward clamping to len(tokens) instead of the last token
forward_to_end(s) ==
    IF s.tokens = <<>> THEN s
    ELSE seek_show([s EXCEPT !.current_index =
                        Min(Len(s.tokens), s.current_index + forward_amount(s))])

forward(s) ==
    IF s.tokens = <<>> THEN s
    ELSE seek_show([s EXCEPT !.current_index =
                        Min(Len(s.tokens) - 1, s.current_index + forward_amount(s))])

(***************************************************************************)
(* QuickReadApp: settings.                                                 *)
(***************************************************************************)
on_wpm_changed(s, value) == [s EXCEPT !.wpm = value]
\* on_reading_wpm_changed restarting a pending timer at the new speed
on_reading_wpm_changed_reschedules(s, value) ==
    IF s.timer = <<>> THEN [s EXCEPT !.wpm = value]
    ELSE timer_start([s EXCEPT !.wpm = value], MS_PER_MINUTE \div value)

on_reading_wpm_changed(s, value) == [s EXCEPT !.wpm = value]
\* increase_wpm without the clamp to MAX_WPM
increase_wpm_unclamped(s) == [s EXCEPT !.wpm = s.wpm + WPM_STEP]

increase_wpm(s) == [s EXCEPT !.wpm = Min(s.wpm + WPM_STEP, MAX_WPM)]
decrease_wpm(s) == [s EXCEPT !.wpm = Max(s.wpm - WPM_STEP, MIN_WPM)]
on_wpf_changed(s, data) == [s EXCEPT !.words_per_flash = data]

(***************************************************************************)
(* The phase of the engine, read off the fields.                           *)
(***************************************************************************)
PhaseOf(playing, paused, index, ntokens) ==
    IF playing THEN "Playing"
    ELSE IF paused THEN "Paused"
    ELSE IF ntokens > 0 /\ index >= ntokens THEN "Finished"
    ELSE "Idle"

Phase == PhaseOf(is_playing, is_paused, current_index, Len(tokens))

(***************************************************************************)
(* call is the module-level function or widget method applied last on its  *)
(* own, its argument, what it returned (for a widget method: what it left  *)
(* in the labels) and whether the call before was the same.                *)
(***************************************************************************)
NoCall == [fn |-> "none", arg |-> <<>>, result |-> <<>>, again |-> FALSE]

Called(fn, arg, result) ==
    [fn |-> fn, arg |-> arg, result |-> result,
     again |-> call.fn = fn /\ call.arg = arg]

(***************************************************************************)
(* History: last is the slot that ran last, the state it found, the text   *)
(* start_reading was given and, for a rewind that directly follows a       *)
(* forward, the position that forward had found (else -1); log is         *)
(* the token indices emitted since the position was last put to 0 by       *)
(* start_reading, by stop_reading or by a restart from Finished, kept      *)
(* while run_clean: only ticks and toggle_play_pause ran since.            *)
(***************************************************************************)
Before(op, text) ==
    [op |-> op, index |-> current_index, playing |-> is_playing, paused |-> is_paused,
     pending |-> Len(timer), ntokens |-> Len(tokens), text |-> text,
     origin |-> IF op = "rewind" /\ last.op = "forward" THEN last.index ELSE -1]

Emitted(s) ==
    IF s.flash.kind = "flash"
    THEN [i \in 1..(s.flash.to - s.flash.from) |-> s.flash.from + i - 1]
    ELSE <<>>

\* the fields of the application after a slot left them as s
Becomes(s) ==
    /\ tokens' = s.tokens
    /\ current_index' = s.current_index
    /\ is_playing' = s.is_playing
    /\ is_paused' = s.is_paused
    /\ wpm' = s.wpm
    /\ words_per_flash' = s.words_per_flash
    /\ timer' = s.timer
    /\ display' = s.display
    /\ progress_bar' = s.progress_bar
    /\ flash' = s.flash
    /\ warning' = s.warning
    /\ call' = call

\* a slot that starts a run at position 0
StartsRun(s) == run_clean' = TRUE /\ log' = Emitted(s)

\* a tick or a toggle_play_pause, which continues the run
ContinuesRun(s) ==
    /\ run_clean' = run_clean
    /\ log' = IF ~run_clean THEN <<>>
              ELSE IF Phase = "Finished" /\ s.is_playing THEN Emitted(s)
              ELSE IF Len(log) <= Len(tokens) THEN log \o Emitted(s)
              ELSE log

\* any other slot
BreaksRun == run_clean' = FALSE /\ log' = <<>>

Init ==
    /\ tokens = <<>>
    /\ current_index = 0
    /\ is_playing = FALSE
    /\ is_paused = FALSE
    /\ wpm = DEFAULT_WPM
    /\ words_per_flash = DEFAULT_WORDS_PER_FLASH
    /\ timer = <<>>
    /\ display = Cleared
    /\ progress_bar = 0
    /\ flash = [kind |-> "clear", from |-> 0, to |-> 0]
    /\ warning = "none"
    /\ last = [op |-> "init", index |-> 0, playing |-> FALSE, paused |-> FALSE,
               pending |-> 0, ntokens |-> 0, text |-> <<>>, origin |-> -1]
    /\ log = <<>>
    /\ run_clean = TRUE
    /\ call = NoCall

(***************************************************************************)
(* Actions: the slots, as Qt invokes them.                                 *)
(***************************************************************************)
StartReading ==
    \E text \in Texts :
        LET s == start_reading(App, text)
        IN  /\ Becomes(s)
            /\ last' = Before("start_reading", text)
            /\ IF s.warning = "none" THEN StartsRun(s) ELSE BreaksRun

TogglePlayPause ==
    LET s == toggle_play_pause(App)
    IN  /\ Becomes(s)
        /\ last' = Before("toggle_play_pause", <<>>)
        /\ ContinuesRun(s)

StopReading ==
    LET s == stop_reading(App)
    IN  /\ Becomes(s)
        /\ last' = Before("stop_reading", <<>>)
        /\ StartsRun(s)

Rewind ==
    /\ Becomes(rewind(App))
    /\ last' = Before("rewind", <<>>)
    /\ BreaksRun

Forward ==
    /\ Becomes(forward(App))
    /\ last' = Before("forward", <<>>)
    /\ BreaksRun

\* self.timer.timeout -> display_next_word
Tick ==
    /\ timer # <<>>
    /\ \E s \in {display_next_word(App)} :
           /\ Becomes(s)
           /\ last' = Before("tick", <<>>)
           /\ ContinuesRun(s)

\* display_next_word delivered although no timeout is pending
StaleTick ==
    /\ timer = <<>>
    /\ LET s == display_next_word(App)
       IN  /\ Becomes(s)
           /\ last' = Before("stale_tick", <<>>)
           /\ ContinuesRun(s)

OnWpmChanged ==
    \E value \in WpmChoices :
        /\ Becomes(on_wpm_changed(App, value))
        /\ last' = Before("on_wpm_changed", <<>>)
        /\ BreaksRun

OnReadingWpmChanged ==
    \E value \in WpmChoices :
        /\ Becomes(on_reading_wpm_changed(App, value))
        /\ last' = Before("on_reading_wpm_changed", <<>>)
        /\ BreaksRun

IncreaseWpm ==
    /\ KeyReach(Min(wpm + WPM_STEP, MAX_WPM))
    /\ Becomes(increase_wpm(App))
    /\ last' = Before("increase_wpm", <<>>)
    /\ BreaksRun

DecreaseWpm ==
    /\ KeyReach(Max(wpm - WPM_STEP, MIN_WPM))
    /\ Becomes(decrease_wpm(App))
    /\ last' = Before("decrease_wpm", <<>>)
    /\ BreaksRun

OnWpfChanged ==
    \E data \in WpfChoices :
        /\ Becomes(on_wpf_changed(App, data))
        /\ last' = Before("on_wpf_changed", <<>>)
        /\ BreaksRun

Next ==
    \/ StartReading
    \/ TogglePlayPause
    \/ StopReading
    \/ Rewind
    \/ Forward
    \/ Tick
    \/ OnWpmChanged
    \/ OnReadingWpmChanged
    \/ IncreaseWpm
    \/ DecreaseWpm
    \/ OnWpfChanged

Spec == Init /\ [][Next]_vars

\* the engine at one speed, with display_next_word also delivered by a
\* cancelled timer
NextStale ==
    \/ StartReading
    \/ TogglePlayPause
    \/ StopReading
    \/ Rewind
    \/ Forward
    \/ Tick
    \/ StaleTick
    \/ OnWpfChanged

SpecStale == Init /\ [][NextStale]_vars

\* the engine at one speed reading one long text, loaded once
StartReadingLong ==
    /\ tokens = <<>>
    /\ \E text \in LongTexts :
           LET s == start_reading(App, text)
           IN  /\ Becomes(s)
               /\ last' = Before("start_reading", text)
               /\ StartsRun(s)

NextSeek ==
    \/ StartReadingLong
    \/ TogglePlayPause
    \/ StopReading
    \/ Rewind
    \/ Forward
    \/ Tick
    \/ OnWpfChanged

SpecSeek == Init /\ [][NextSeek]_vars

\* the engine with the speed slider dragged to the values of
\* TruncatedWpmChoices
OnWpmDragged ==
    \E value \in TruncatedWpmChoices :
        /\ Becomes(on_wpm_changed(App, value))
        /\ last' = Before("on_wpm_changed", <<>>)
        /\ BreaksRun

NextDelayed ==
    \/ StartReading
    \/ TogglePlayPause
    \/ StopReading
    \/ Rewind
    \/ Forward
    \/ Tick
    \/ OnWpmDragged
    \/ OnWpfChanged

SpecDelayed == Init /\ [][NextDelayed]_vars

\* the engine at one speed, its timer firing whenever it stays pending
NextFair ==
    \/ StartReading
    \/ TogglePlayPause
    \/ StopReading
    \/ Rewind
    \/ Forward
    \/ Tick
    \/ OnWpfChanged

SpecFair == Init /\ [][NextFair]_vars /\ WF_vars(Tick)

(***************************************************************************)
(* The functions of the module and the methods of ORPDisplayWidget applied *)
(* on their own, to the strings of PureTexts, PureWords and Phrases.       *)
(***************************************************************************)
Letters(n) == [i \in 1..n |-> "x"]

\* n letters, bare; in brackets with a full stop; each followed by a hyphen
PureWords ==
    {Passage[i] : i \in 1..Len(Passage)}
        \cup {Letters(n) : n \in 0..MaxLetters}
        \cup {<<"(">> \o Letters(n) \o <<")", ".">> : n \in 0..MaxLetters}
        \cup {[i \in 1..(2 * n) |-> IF i % 2 = 1 THEN "x" ELSE "-"] : n \in 1..MaxLetters}
        \cup {<<"a", ".", "b">>, <<"1", ",", "0">>, <<"?", "!">>, <<".", "a", ",">>,
              <<"o", "h", ",", "!">>, <<"n", "o", ".", ";">>}

RECURSIVE JoinWords(_, _)
JoinWords(ws, sep) ==
    IF ws = <<>> THEN <<>>
    ELSE IF Len(ws) = 1 THEN ws[1]
    ELSE ws[1] \o sep \o JoinWords(Tail(ws), sep)

PureTexts ==
    {PlainText(n) : n \in 0..Len(Passage)}
        \cup {PaddedText(n) : n \in 0..Len(Passage)}
        \cup {<<" ">>, <<" ", "\t", "\n">>,
              JoinWords(<< <<"a", ".", "b">>, <<"?", "!">>, <<"o", "h", ",", "!">>,
                           <<"n", "o", ".", ";">>, <<"1", ",", "0">> >>, <<"\n", " ">>)}

\* the c words of the passage from the i-th on
Phrase(i, c) == [k \in 1..c |-> PassageWord(i + k - 1)]
Phrases == {Phrase(i, c) : i \in 1..Len(Passage), c \in 0..MAX_WORDS_PER_FLASH}

\* the application's state, which a call of a module-level function leaves alone
app_state ==
    <<tokens, current_index, is_playing, is_paused, wpm, words_per_flash,
      timer, display, progress_bar, flash, warning, last, log, run_clean>>

TokenizeText ==
    \E text \in PureTexts :
        LET result == tokenize_text(text)
        IN  /\ call' = Called("tokenize_text", text, result)
            /\ UNCHANGED app_state

CalculateOrpIndex ==
    \E word \in PureWords :
        LET result == calculate_orp_index(word)
        IN  /\ call' = Called("calculate_orp_index", word, result)
            /\ UNCHANGED app_state

FindOrpInWord ==
    \E word \in PureWords :
        LET result == find_orp_in_word(word)
        IN  /\ call' = Called("find_orp_in_word", word, result)
            /\ UNCHANGED app_state

DisplayWord ==
    \E word \in PureWords :
        LET result == display_word(word)
        IN  /\ call' = Called("display_word", word, result)
            /\ UNCHANGED app_state

DisplayPhrase ==
    \E words \in Phrases :
        LET result == display_phrase(words)
        IN  /\ call' = Called("display_phrase", words, result)
            /\ UNCHANGED app_state

NextPure ==
    \/ TokenizeText
    \/ CalculateOrpIndex
    \/ FindOrpInWord
    \/ DisplayWord
    \/ DisplayPhrase

SpecPure == Init /\ [][NextPure]_vars

(***************************************************************************)
(* Properties of the playback engine.                                      *)
(***************************************************************************)

\* C1: in every reachable state the position lies in 0..len(tokens).
C1_PositionInRange == current_index \in 0..Len(tokens)

\* a tick has emitted the last token: the position is at len(tokens)
C1_Witness == last.op = "tick" /\ Len(tokens) > 1 /\ current_index = Len(tokens)

\* C2: a display_next_word delivered right after stop_reading was called while
\* Playing changes nothing: position 0, nothing emitted, no timer, phase Idle.
C2_StaleTickAfterStopIsNoOp ==
    [][(last.op = "stop_reading" /\ last.playing /\ last'.op = "stale_tick")
           => /\ current_index' = 0
              /\ flash'.kind = "none"
              /\ timer' = <<>>
              /\ Phase' = "Idle"]_vars

\* C3 as stated: in a run from position 0 of ticks and toggle_play_pause only, the
\* tokens emitted before Finished is reached are 0, 1, 2, ... in order.
C3_NoSkipNoRepeatUntilFinished ==
    run_clean => \A i \in 1..Len(log) : log[i] = i - 1

\* C3 amended: in such a run the tokens emitted until the position reaches
\* len(tokens) are 0, 1, 2, ... in order, and the position is their number.
C3_NoSkipNoRepeatUntilEnd ==
    run_clean =>
        /\ \A i \in 1..Min(Len(log), Len(tokens)) : log[i] = i - 1
        /\ Len(log) <= Len(tokens) => current_index = Len(log)

\* a run of three tokens, paused and resumed before the last one
C3_Witness ==
    /\ run_clean /\ last.op = "toggle_play_pause" /\ last.paused /\ is_playing
    /\ log = <<0, 1, 2>> /\ Len(tokens) = 3

\* C4: at most one timeout is pending, and none unless the engine is Playing.
C4_OneTimerOnlyWhilePlaying == Len(timer) <= 1 /\ (~is_playing => timer = <<>>)

\* toggle_play_pause has paused a playing engine whose timer was pending
C4_Witness ==
    /\ last.op = "toggle_play_pause" /\ last.playing /\ last.pending = 1
    /\ is_paused /\ timer = <<>>

\* the scenario of C5: three tokens, one word per flash, 600 wpm, nothing but
\* ticks and toggle_play_pause since the position was 0
C5_Scenario ==
    Len(tokens) = 3 /\ words_per_flash = 1 /\ wpm = FAST_WPM /\ run_clean

\* C5 as stated: resume emits token 0 and schedules a tick in 100 ms; after that
\* tick position = 1, token 1 is emitted and a tick is scheduled; after the final
\* tick position = 3, the phase is Finished, the completion flash is out and no
\* timer is pending.
C5_EndToEndAsStated ==
    C5_Scenario =>
        /\ (is_playing /\ log = <<0>>) =>
               /\ flash = [kind |-> "flash", from |-> 0, to |-> 1]
               /\ timer = <<100>>
        /\ (last.op = "tick" /\ log = <<0, 1>>) =>
               /\ current_index = 1
               /\ flash = [kind |-> "flash", from |-> 1, to |-> 2]
               /\ Len(timer) = 1
        /\ (last.op = "tick" /\ last.index = 3) =>
               /\ current_index = 3
               /\ Phase = "Finished"
               /\ flash.kind = "message"
               /\ timer = <<>>

\* C5 amended: resume emits token 0, leaves position = 1 and schedules a tick in
\* 100 ms times the delay multiplier of token 0; the first tick emits token 1,
\* leaves position = 2 and schedules the next; the tick that finds position = 3
\* leaves position = 3, phase Finished, the completion flash and no timer.
C5_EndToEnd ==
    C5_Scenario =>
        /\ (is_playing /\ log = <<0>>) =>
               /\ current_index = 1
               /\ flash = [kind |-> "flash", from |-> 0, to |-> 1]
               /\ timer = <<(100 * tokens[1].delay_multiplier) \div 10>>
        /\ (last.op = "tick" /\ log = <<0, 1>>) =>
               /\ current_index = 2
               /\ flash = [kind |-> "flash", from |-> 1, to |-> 2]
               /\ timer = <<(100 * tokens[2].delay_multiplier) \div 10>>
        /\ (last.op = "tick" /\ last.index = 3) =>
               /\ current_index = 3
               /\ Phase = "Finished"
               /\ flash.kind = "message"
               /\ timer = <<>>

\* the scenario played to its finishing tick
C5_Witness ==
    /\ C5_Scenario /\ last.op = "tick" /\ last.index = 3 /\ last.playing
    /\ log = <<0, 1, 2>> /\ Phase = "Finished"

\* C6: a tick that finds position >= len(tokens) puts the completion message alone
\* in the focus slot, leaves the engine not playing, in Finished, with no timer;
\* and a Finished state is entered by that tick only: the slot that ran last was
\* that tick, or it found the engine Finished already.
C6_FinishingTick ==
    /\ (last.op = "tick" /\ last.index >= last.ntokens) =>
           /\ display = [left |-> <<>>, orp |-> DONE_MESSAGE, right |-> <<>>]
           /\ flash.kind = "message"
           /\ ~is_playing
           /\ Phase = "Finished"
           /\ timer = <<>>
    /\ Phase = "Finished" =>
           \/ last.op = "tick" /\ last.index >= last.ntokens
           \/ PhaseOf(last.playing, last.paused, last.index, last.ntokens) = "Finished"

\* the finishing tick of a stream shown two words at a time
C6_Witness ==
    /\ last.op = "tick" /\ last.index >= last.ntokens /\ last.playing
    /\ words_per_flash = 2 /\ Phase = "Finished"

\* C7: display_next_word delivered to a Finished engine leaves position, phase,
\* token stream and timer as they were.
C7_StaleTickInFinished ==
    [][(Phase = "Finished" /\ last'.op = "stale_tick")
           => /\ current_index' = current_index
              /\ Phase' = Phase
              /\ tokens' = tokens
              /\ timer' = timer]_vars

\* a stale tick has been delivered to a Finished engine
C7_Witness ==
    /\ last.op = "stale_tick"
    /\ PhaseOf(last.playing, last.paused, last.index, last.ntokens) = "Finished"
    /\ Len(tokens) = 3

\* C8: a tick at position p < len(tokens) emits the tokens p .. p+k-1 for
\* k = min(words_per_flash, len(tokens) - p), leaves position p+k, the progress
\* of p+k and one pending timer.
C8_TickAdvances ==
    (last.op = "tick" /\ last.index < last.ntokens) =>
        LET k == Min(words_per_flash, last.ntokens - last.index)
        IN  /\ flash = [kind |-> "flash", from |-> last.index, to |-> last.index + k]
            /\ display = display_phrase([i \in 1..k |-> tokens[last.index + i].word])
            /\ current_index = last.index + k
            /\ progress_bar = (100 * (last.index + k)) \div last.ntokens
            /\ Len(timer) = 1

\* a tick whose flash is cut short by the end of the stream
C8_Witness ==
    /\ last.op = "tick" /\ last.index < last.ntokens
    /\ words_per_flash = 2 /\ current_index = last.index + 1

\* C9 as stated: start_reading with empty or whitespace-only text leaves the engine
\* Idle with no stream, not playing and with no timer, whatever it found.
C9_EmptyStartLeavesIdle ==
    (last.op = "start_reading" /\ warning # "none") =>
        /\ Phase = "Idle"
        /\ tokens = <<>>
        /\ ~is_playing
        /\ timer = <<>>

\* C9 amended: start_reading with empty or whitespace-only text reports "No Text"
\* and leaves every field of the engine, the timer and the display as they were.
C9_EmptyStartChangesNothing ==
    [][(last'.op = "start_reading" /\ Strip(last'.text) = <<>>)
           => /\ warning' = "No Text"
              /\ UNCHANGED <<tokens, current_index, is_playing, is_paused, wpm,
                             words_per_flash, timer, display, progress_bar>>]_vars

\* start_reading was given whitespace only while a stream was playing
C9_Witness ==
    /\ last.op = "start_reading" /\ last.text # <<>> /\ Strip(last.text) = <<>>
    /\ warning = "No Text" /\ last.playing /\ is_playing /\ timer # <<>>

\* C10 as stated: start_reading with a text of at least one word replaces the
\* stream, puts the position to 0 and leaves the engine Idle, not playing, with
\* no timer and nothing emitted.
C10_StartLeavesIdle ==
    (last.op = "start_reading" /\ Strip(last.text) # <<>>) =>
        /\ tokens = tokenize_text(last.text)
        /\ current_index = 0
        /\ Phase = "Idle"
        /\ timer = <<>>
        /\ flash.kind # "flash"

\* C10 amended: start_reading with a text of at least one word replaces the
\* stream, puts the position to 0 and starts playback itself: it leaves the
\* engine Playing, the flash of the tokens 0 .. k-1 emitted for
\* k = min(words_per_flash, len(tokens)), position k and one pending timer.
C10_StartAutoStarts ==
    (last.op = "start_reading" /\ Strip(last.text) # <<>>) =>
        LET k == Min(words_per_flash, Len(tokens))
        IN  /\ tokens = tokenize_text(last.text)
            /\ tokens # <<>>
            /\ warning = "none"
            /\ Phase = "Playing"
            /\ ~is_paused
            /\ flash = [kind |-> "flash", from |-> 0, to |-> k]
            /\ current_index = k
            /\ Len(timer) = 1

\* start_reading has replaced a playing stream by a longer one
C10_Witness ==
    /\ last.op = "start_reading" /\ Strip(last.text) # <<>>
    /\ last.playing /\ last.ntokens = 1 /\ Len(tokens) = 3 /\ last.index = 1

\* C11: stop_reading, in whichever phase it finds the engine, leaves no
\* timeout pending, the position 0, the engine Idle (neither playing nor
\* paused) and the display cleared.
C11_StopResets ==
    last.op = "stop_reading" =>
        /\ timer = <<>>
        /\ current_index = 0
        /\ Phase = "Idle"
        /\ ~is_playing /\ ~is_paused
        /\ display = Cleared
        /\ flash.kind = "clear"

\* stop_reading found the engine paused in the middle of the stream
C11_Witness ==
    /\ last.op = "stop_reading"
    /\ last.paused /\ last.index > 0 /\ last.index < last.ntokens

\* C12: toggle_play_pause while Playing leaves no timeout pending and the
\* engine Paused; the position, the tokens, wpm and words_per_flash stay as
\* they were and no flash is emitted.
C12_ToggleWhilePlayingPauses ==
    [][(last'.op = "toggle_play_pause" /\ is_playing) =>
           /\ timer' = <<>>
           /\ Phase' = "Paused"
           /\ UNCHANGED <<current_index, tokens, wpm, words_per_flash, display>>
           /\ flash'.kind = "none"]_vars

\* toggle_play_pause has paused a playing engine whose timeout was pending
C12_Witness ==
    /\ last.op = "toggle_play_pause"
    /\ last.playing /\ last.pending = 1
    /\ is_paused /\ current_index > 0

\* C13: toggle_play_pause while Finished restarts from the beginning: the
\* position is put back to 0, the engine is Playing and the flash it emits
\* begins at token 0.  While Idle or Paused with the position below
\* len(tokens) it leaves the engine Playing and has emitted, before it
\* returns, the flash that begins at the position it found.
C13_ToggleResumes ==
    last.op = "toggle_play_pause" =>
        LET found == PhaseOf(last.playing, last.paused, last.index, last.ntokens)
        IN  /\ found = "Finished" =>
                  /\ Phase = "Playing"
                  /\ flash = [kind |-> "flash", from |-> 0,
                              to |-> Min(words_per_flash, Len(tokens))]
                  /\ current_index = flash.to
                  /\ Len(timer) = 1
            /\ (found \in {"Idle", "Paused"} /\ last.index < last.ntokens) =>
                  /\ Phase = "Playing"
                  /\ flash = [kind |-> "flash", from |-> last.index,
                              to |-> Min(last.index + words_per_flash, Len(tokens))]
                  /\ current_index = flash.to
                  /\ Len(timer) = 1

\* toggle_play_pause has restarted a Finished stream of several tokens
C13_Witness ==
    /\ last.op = "toggle_play_pause"
    /\ PhaseOf(last.playing, last.paused, last.index, last.ntokens) = "Finished"
    /\ last.ntokens > 1
    /\ is_playing /\ flash.from = 0

(***************************************************************************)
(* Properties of rewind and forward.                                       *)
(***************************************************************************)

\* C14: on a stream that is not empty every rewind and every forward emits a
\* flash whose first token has an index in 0 .. len(tokens) - 1, and never the
\* completion message; on an empty stream rewind and forward change nothing.
C14_SeekTargetInRange ==
    [][(last'.op \in {"rewind", "forward"}) =>
           IF tokens = <<>>
           THEN UNCHANGED <<tokens, current_index, is_playing, is_paused, wpm,
                            words_per_flash, timer, display, progress_bar>>
                /\ flash'.kind = "none"
           ELSE /\ flash'.kind = "flash"
                /\ flash'.from \in 0..(Len(tokens) - 1)
                /\ flash'.to > flash'.from
                /\ display' # display_message(DONE_MESSAGE)
                /\ tokens' = tokens]_vars

\* forward, while playing past the middle of the longer text, was cut to the
\* last token
C14_Witness ==
    /\ last.op = "forward"
    /\ last.playing
    /\ last.ntokens = LongWords
    /\ last.index > LongWords \div 2
    /\ flash.kind = "flash" /\ flash.from = LongWords - 1

\* C15 as stated: rewind or forward while the engine is not Playing (Idle,
\* Paused or Finished) emits the flash at the new position, leaves the
\* position at the seek target, schedules no timer and leaves the phase
\* unchanged.
C15_SeekWhileNotPlayingKeepsPhase ==
    [][(last'.op \in {"rewind", "forward"} /\ ~is_playing /\ tokens # <<>>) =>
           /\ flash'.kind = "flash"
           /\ current_index' = flash'.from
           /\ timer' = <<>>
           /\ Phase' = Phase]_vars

\* C15 amended: rewind or forward while the engine is not Playing emits the
\* flash at the new position, leaves the position at the seek target,
\* schedules no timer and leaves is_playing and is_paused as they were: an
\* Idle engine stays Idle and a Paused one Paused, while a Finished engine is
\* Idle afterwards, its position being below len(tokens) again.
C15_SeekWhileNotPlaying ==
    [][(last'.op \in {"rewind", "forward"} /\ ~is_playing /\ tokens # <<>>) =>
           /\ flash'.kind = "flash"
           /\ current_index' = flash'.from
           /\ current_index' < Len(tokens)
           /\ timer' = <<>>
           /\ UNCHANGED <<is_playing, is_paused, tokens>>
           /\ Phase' = IF Phase = "Finished" THEN "Idle" ELSE Phase]_vars

\* rewind has taken a Finished engine back into the stream
C15_Witness ==
    /\ last.op = "rewind"
    /\ PhaseOf(last.playing, last.paused, last.index, last.ntokens) = "Finished"
    /\ Phase = "Idle"
    /\ flash.kind = "flash" /\ current_index = flash.from
    /\ timer = <<>>

\* the step the last seek was asked to take, and the position it aimed at,
\* kept within 0 .. len(tokens) - 1
SeekStep == Max(10, last.ntokens \div 20) * words_per_flash

SeekTarget ==
    LET asked == IF last.op = "rewind" THEN last.index - SeekStep
                 ELSE last.index + SeekStep
    IN  Max(0, Min(last.ntokens - 1, asked))

\* C16: rewind or forward while Playing replaces the pending timeout: it
\* emits at once the flash that begins at the clamped new position, leaves
\* exactly one timeout pending, the one of that flash, and the engine Playing.
C16_SeekWhilePlaying ==
    (last.op \in {"rewind", "forward"} /\ last.playing) =>
        /\ Phase = "Playing"
        /\ flash = [kind |-> "flash", from |-> SeekTarget,
                    to |-> Min(SeekTarget + words_per_flash, Len(tokens))]
        /\ current_index = flash.to
        /\ timer = << NextDelay(wpm,
                                MaxMultiplier(SubSeq(tokens, flash.from + 1, flash.to)),
                                words_per_flash) >>

\* rewind, while playing with a timeout pending, went back a full step
C16_Witness ==
    /\ last.op = "rewind"
    /\ last.playing /\ last.pending = 1
    /\ flash.kind = "flash" /\ flash.from > 0 /\ flash.from < last.index
    /\ is_playing /\ Len(timer) = 1

\* a rewind directly after a forward that had found the position
\* last.origin > 0, neither of the two cut at an end of the stream
UnclampedRoundTrip ==
    /\ last.op = "rewind"
    /\ last.origin > 0
    /\ last.origin + SeekStep <= last.ntokens - 1
    /\ last.index - SeekStep >= 0

\* C17 as stated: from an interior position p, forward and then rewind, with
\* no tick in between and neither of them clamped, return the position to p
\* in every phase in which seeking is possible (Idle, Paused, Playing).
C17_RoundTripEveryPhase ==
    UnclampedRoundTrip => current_index = last.origin

\* C17 amended: from an interior position p, forward and then rewind, with no
\* tick in between and neither of them clamped, return the position to p
\* while the engine is not Playing (Idle, Paused), the flash then shown
\* beginning at p.  While Playing each of the two seeks emits a flash and
\* advances past it, so the rewind shows the flash that begins after the
\* tokens forward has emitted, and the position ends behind that flash: at
\* p + 2 * words_per_flash when neither flash is cut by the end of the stream.
C17_RoundTripWhileNotPlaying ==
    UnclampedRoundTrip =>
        IF last.playing
        THEN /\ flash.kind = "flash"
             /\ flash.from = last.index - SeekStep
             /\ flash.from > last.origin
             /\ current_index = flash.to
             /\ (last.index = last.origin + SeekStep + words_per_flash =>
                     current_index = last.origin + 2 * words_per_flash)
        ELSE /\ current_index = last.origin
             /\ flash.kind = "flash" /\ flash.from = last.origin

\* forward and rewind have taken a paused engine from position 5 of the
\* longer text a full step ahead and back
C17_Witness ==
    /\ UnclampedRoundTrip
    /\ last.paused /\ ~last.playing
    /\ last.ntokens = LongWords
    /\ last.index = last.origin + SeekStep
    /\ current_index = last.origin
    /\ words_per_flash > 1

\* C18: rewind and forward move the position, before it is clamped, by
\* max(10, floor(len(tokens) / 20)) * words_per_flash words, the same number
\* in both directions: the flash a seek emits begins that many tokens behind
\* or ahead of the position the seek found, or at the end of the stream that
\* lies nearer.
C18_SeekStepSize ==
    (last.op \in {"rewind", "forward"} /\ last.ntokens > 0) =>
        LET d == Max(10, last.ntokens \div 20) * words_per_flash
        IN  /\ flash.kind = "flash"
            /\ last.op = "forward" =>
                   flash.from = IF last.index + d <= last.ntokens - 1
                                THEN last.index + d ELSE last.ntokens - 1
            /\ last.op = "rewind" =>
                   flash.from = IF last.index - d >= 0 THEN last.index - d ELSE 0

\* forward has moved ahead by a twentieth of the longer text for each of
\* several words per flash
C18_Witness ==
    /\ last.op = "forward"
    /\ last.ntokens = LongWords
    /\ LongWords \div 20 > 10
    /\ words_per_flash > 1
    /\ flash.kind = "flash"
    /\ flash.from = last.index + (LongWords \div 20) * words_per_flash
    /\ flash.from < LongWords - 1

(***************************************************************************)
(* Properties of the delay and of the settings.                            *)
(***************************************************************************)

\* C19: the delay scheduled after each emitted flash is
\* (60000 / wpm) * M * F truncated to whole milliseconds, M the largest
\* delay multiplier among the tokens of the flash just emitted, F 1.2 when
\* words_per_flash > 1 and 1 otherwise; with wpm = 600, words_per_flash = 1
\* and M = 1 it is 100 ms.  (M and F are counted in tenths.)
C19_DelayIsTruncatedProduct ==
    (flash.kind = "flash" /\ timer # <<>>) =>
        LET M == MaxMultiplier(SubSeq(tokens, flash.from + 1, flash.to))
            F == IF words_per_flash > 1 THEN 12 ELSE 10
        IN  /\ timer = << (60000 * M * F) \div (wpm * 100) >>
            /\ (wpm = 600 /\ words_per_flash = 1 /\ M = 10) => timer = <<100>>

\* C20: in every reachable state 100 <= wpm <= 1000 and
\* 1 <= words_per_flash <= 5; increase_wpm adds 25 to wpm and decrease_wpm
\* takes 25 from it, both clamped at the bounds: at 1000 increase_wpm leaves
\* 1000, at 100 decrease_wpm leaves 100.
C20_SettingsInRange ==
    /\ [](wpm \in 100..1000 /\ words_per_flash \in 1..5)
    /\ [][/\ last'.op = "increase_wpm" =>
                wpm' = IF wpm + 25 > 1000 THEN 1000 ELSE wpm + 25
          /\ last'.op = "decrease_wpm" =>
                wpm' = IF wpm - 25 < 100 THEN 100 ELSE wpm - 25
          /\ last'.op \in {"increase_wpm", "decrease_wpm"} =>
                UNCHANGED <<tokens, current_index, is_playing, is_paused,
                            words_per_flash, timer>>]_vars

\* the Up key was pressed with the slider at its upper end
C20_Witness ==
    /\ last.op = "increase_wpm"
    /\ wpm = 1000

\* the slots that change the speed
SpeedSlots == {"on_wpm_changed", "on_reading_wpm_changed", "increase_wpm", "decrease_wpm"}

\* C21: a change of the speed while a timeout is pending leaves the pending
\* timeout and its interval, the position and the phase as they were; the
\* new wpm is first used in the delay the next tick computes.
C21_SpeedChangeLeavesTimer ==
    [][/\ (last'.op \in SpeedSlots /\ timer # <<>>) =>
              /\ UNCHANGED <<timer, current_index, is_playing, is_paused, tokens>>
              /\ Phase' = Phase
       /\ (last'.op = "tick" /\ last.op \in SpeedSlots /\ flash'.kind = "flash") =>
              timer' = << NextDelay(wpm,
                                    MaxMultiplier(SubSeq(tokens, flash'.from + 1, flash'.to)),
                                    words_per_flash) >>]_vars

\* the reading view's slider was dragged to its upper end while a timeout
\* longer than any delay at that speed was pending
C21_Witness ==
    /\ last.op = "on_reading_wpm_changed"
    /\ last.playing /\ last.pending = 1
    /\ wpm = MAX_WPM
    /\ Len(timer) = 1
    /\ timer[1] > NextDelay(MAX_WPM, PERIOD_DELAY_MULTIPLIER, MAX_WORDS_PER_FLASH)

C30_PlayingHasTimer == is_playing => (timer # <<>> /\ ~is_paused)

\* the tick that emitted the last flash has left the engine Playing at the
\* end of the stream, the finishing tick scheduled
C30_Witness ==
    /\ is_playing
    /\ last.op = "tick"
    /\ current_index = Len(tokens)
    /\ Len(timer) = 1

(***************************************************************************)
(* Properties of tokenize_text, of the ORP functions and of the display.   *)
(* Delay multipliers are counted in tenths.                                *)
(***************************************************************************)

\* "Hi there. It's nice, ok?"
ExampleText ==
    <<"H", "i", " ", "t", "h", "e", "r", "e", ".", " ", "I", "t", "'", "s", " ",
      "n", "i", "c", "e", ",", " ", "o", "k", "?">>

\* C23 as stated: every token tokenize_text produces has delay_multiplier
\* 2.0 if its last character is one of . ! ?, else 1.5 if its last character
\* is one of , ; :, else 1.0; only the last character matters, and
\* "Hi there. It's nice, ok?" yields 1.0, 2.0, 1.5, 1.0, 2.0.
C23_MultiplierExampleAsStated ==
    call.fn = "tokenize_text" =>
        /\ \A i \in 1..Len(call.result) :
               LET word == call.result[i].word
                   final == word[Len(word)]
               IN  call.result[i].delay_multiplier =
                       IF final \in {".", "!", "?"} THEN 20
                       ELSE IF final \in {",", ";", ":"} THEN 15
                       ELSE 10
        /\ call.arg = ExampleText =>
               [i \in 1..Len(call.result) |-> call.result[i].delay_multiplier]
                   = <<10, 20, 15, 10, 20>>

\* C23 amended: every token tokenize_text produces has delay_multiplier 2.0
\* if its last character is one of . ! ?, else 1.5 if its last character is
\* one of , ; :, else 1.0; only the last character matters, and
\* "Hi there. It's nice, ok?" yields 1.0, 2.0, 1.0, 1.5, 2.0: "It's" ends in
\* a letter, "nice," in a comma.
C23_MultiplierByLastCharacter ==
    call.fn = "tokenize_text" =>
        /\ \A i \in 1..Len(call.result) :
               LET word == call.result[i].word
                   final == word[Len(word)]
               IN  call.result[i].delay_multiplier =
                       IF final \in {".", "!", "?"} THEN 20
                       ELSE IF final \in {",", ";", ":"} THEN 15
                       ELSE 10
        /\ call.arg = ExampleText =>
               /\ [i \in 1..Len(call.result) |-> call.result[i].delay_multiplier]
                      = <<10, 20, 10, 15, 20>>
               /\ call.result[3].word = <<"I", "t", "'", "s">>
               /\ call.result[4].word = <<"n", "i", "c", "e", ",">>

\* tokenize_text was given the example
C23_Witness ==
    /\ call.fn = "tokenize_text"
    /\ call.arg = ExampleText
    /\ Len(call.result) = 5
    /\ call.result[3].delay_multiplier = 10
    /\ call.result[4].delay_multiplier = 15

\* the maximal whitespace-free runs of text, as <<first, last>> positions
Runs(text) ==
    {r \in (1..Len(text)) \X (1..Len(text)) :
        /\ r[1] <= r[2]
        /\ \A k \in r[1]..r[2] : ~IsSpace(text[k])
        /\ r[1] = 1 \/ IsSpace(text[r[1] - 1])
        /\ r[2] = Len(text) \/ IsSpace(text[r[2] + 1])}

\* C24: tokenize_text returns, in the order of the input, exactly the
\* maximal whitespace-free substrings of the text, each kept verbatim with
\* its punctuation and none empty; the tokens joined by single spaces are the
\* text with its whitespace normalised and its ends trimmed; an empty text
\* and a text of whitespace only give the empty stream.
C24_TokensAreTheRuns ==
    call.fn = "tokenize_text" =>
        LET text == call.arg
            words == [i \in 1..Len(call.result) |-> call.result[i].word]
            joined == JoinWords(words, <<" ">>)
        IN  /\ Len(words) = Cardinality(Runs(text))
            /\ \A r \in Runs(text) :
                   words[1 + Cardinality({q \in Runs(text) : q[1] < r[1]})]
                       = SubSeq(text, r[1], r[2])
            /\ \A i \in 1..Len(words) : words[i] # <<>>
            /\ joined = CollapseWhitespace(Strip(text))
            /\ joined = <<>> \/ (~IsSpace(joined[1]) /\ ~IsSpace(joined[Len(joined)]))
            /\ \A k \in 1..Len(joined) :
                   IsSpace(joined[k]) => (joined[k] = " " /\ ~IsSpace(joined[k + 1]))
            /\ SelectSeq(joined, LAMBDA c : ~IsSpace(c))
                   = SelectSeq(text, LAMBDA c : ~IsSpace(c))
            /\ (\A k \in 1..Len(text) : IsSpace(text[k])) => call.result = <<>>

\* tokenize_text was given a text that begins with a tab, separates its
\* words by two spaces and holds words of punctuation only
C24_Witness ==
    /\ call.fn = "tokenize_text"
    /\ Len(call.arg) > 0 /\ call.arg[1] = "\t"
    /\ Len(call.result) = Len(Passage)
    /\ \E i \in 1..Len(call.result) : call.result[i].word = <<"-", "-">>

\* the number of word characters of a string
WordChars(word) == Cardinality({k \in 1..Len(word) : IsWordChar(word[k])})

\* C25: for a string with n word characters calculate_orp_index returns 0
\* when n <= 1, 1 when 2 <= n <= 5, 2 when 6 <= n <= 9, 3 when
\* 10 <= n <= 13 and floor(n / 4) when n >= 14; n = 1, 5, 9, 13, 20 give
\* 0, 1, 2, 3, 5; the other characters of the string never change the rank.
C25_OrpRankByWordCharacters ==
    call.fn = "calculate_orp_index" =>
        LET n == WordChars(call.arg)
        IN  /\ n <= 1 => call.result = 0
            /\ (2 <= n /\ n <= 5) => call.result = 1
            /\ (6 <= n /\ n <= 9) => call.result = 2
            /\ (10 <= n /\ n <= 13) => call.result = 3
            /\ n >= 14 => call.result = n \div 4
            /\ n = 1 => call.result = 0
            /\ n = 5 => call.result = 1
            /\ n = 9 => call.result = 2
            /\ n = 13 => call.result = 3
            /\ n = 20 => call.result = 5

\* calculate_orp_index was given 20 word characters between other characters
C25_Witness ==
    /\ call.fn = "calculate_orp_index"
    /\ WordChars(call.arg) = 20
    /\ Len(call.arg) > 20
    /\ call.result = 5

\* C26: find_orp_in_word returns the index, in the string as given with
\* its punctuation, of the word character whose 0-based rank among the word
\* characters is the ORP rank, and 0 when the string has no word character;
\* for a string that is not empty the index returned is an index of it.
C26_OrpIndexInString ==
    call.fn = "find_orp_in_word" =>
        LET word == call.arg
            rank == calculate_orp_index(word)
        IN  /\ WordChars(word) = 0 => call.result = 0
            /\ WordChars(word) > 0 =>
                   /\ call.result \in 0..(Len(word) - 1)
                   /\ IsWordChar(word[call.result + 1])
                   /\ Cardinality({k \in 1..call.result : IsWordChar(word[k])}) = rank
            /\ word # <<>> => call.result \in 0..(Len(word) - 1)

\* find_orp_in_word was given a string whose punctuation moves the ORP
\* behind its rank
C26_Witness ==
    /\ call.fn = "find_orp_in_word"
    /\ WordChars(call.arg) > 1
    /\ call.result > calculate_orp_index(call.arg)

\* C27: for a flash of one token with a text that is not empty and ORP
\* index i the layout is left = text[:i], focus = text[i], exactly one
\* character, and right = text[i+1:], so that left + focus + right is the
\* text of the token; composing the same input twice gives the same layout.
C27_SingleWordLayout ==
    [][(call'.fn = "display_word" /\ call'.arg # <<>>) =>
           LET text == call'.arg
               i == find_orp_in_word(text)
               layout == call'.result
           IN  /\ layout.left = SubSeq(text, 1, i)
               /\ layout.orp = <<text[i + 1]>>
               /\ layout.right = SubSeq(text, i + 2, Len(text))
               /\ layout.left \o layout.orp \o layout.right = text
               /\ call'.again => layout = call.result]_vars

\* display_word was given, a second time, a token with characters on both
\* sides of its ORP
C27_Witness ==
    /\ call.fn = "display_word"
    /\ call.again
    /\ call.result.left # <<>> /\ call.result.right # <<>>
    /\ Len(call.result.orp) = 1

\* C28: for a flash of c >= 2 tokens the token at index floor(c / 2)
\* supplies the ORP and the focus character; left is the tokens before it
\* joined by single spaces followed by the part of the middle token before
\* its ORP, right is the part of the middle token after its ORP followed by
\* the tokens after it joined by single spaces, a separating space being
\* inserted only where both joined parts are not empty.
C28_PhraseLayout ==
    (call.fn = "display_phrase" /\ Len(call.arg) >= 2) =>
        LET words == call.arg
            c == Len(words)
            middle == words[(c \div 2) + 1]
            i == find_orp_in_word(middle)
            before_middle == JoinWords(SubSeq(words, 1, c \div 2), <<" ">>)
            after_middle == JoinWords(SubSeq(words, (c \div 2) + 2, c), <<" ">>)
            head == SubSeq(middle, 1, i)
            tail == SubSeq(middle, i + 2, Len(middle))
        IN  /\ call.result.orp = <<middle[i + 1]>>
            /\ call.result.left =
                   IF before_middle # <<>> /\ head # <<>>
                   THEN before_middle \o <<" ">> \o head
                   ELSE before_middle \o head
            /\ call.result.right =
                   IF tail # <<>> /\ after_middle # <<>>
                   THEN tail \o <<" ">> \o after_middle
                   ELSE tail \o after_middle

\* display_phrase was given four words, two before the middle one and one
\* after it, the middle one with characters on both sides of its ORP
C28_Witness ==
    /\ call.fn = "display_phrase"
    /\ Len(call.arg) = 4
    /\ find_orp_in_word(call.arg[3]) > 0
    /\ find_orp_in_word(call.arg[3]) < Len(call.arg[3]) - 1
    /\ call.result.left = call.arg[1] \o <<" ">> \o call.arg[2] \o <<" ">>
                              \o SubSeq(call.arg[3], 1, find_orp_in_word(call.arg[3]))

\* C29: for every flash of two or more words, left + focus + right is the
\* words of the flash joined by single spaces: adjacent words are never
\* rendered without a separating space, also when the ORP of the middle word
\* is its first or its last character.
C29_PhraseReadsAsJoinedWords ==
    (call.fn = "display_phrase" /\ Len(call.arg) >= 2) =>
        call.result.left \o call.result.orp \o call.result.right
            = JoinWords(call.arg, <<" ">>)

(***************************************************************************)
(* Properties of the direction of a seek and of the progress of playback.  *)
(***************************************************************************)

\* C31: in every reachable state with a non-empty stream, forward never
\* leaves the position lower than it was before the call and rewind never
\* leaves the position higher than it was before the call.
C31_SeekNeverGoesBack ==
    /\ (last.op = "forward" /\ last.ntokens > 0) => current_index >= last.index
    /\ (last.op = "rewind" /\ last.ntokens > 0) => current_index <= last.index

\* C31, amended: forward never leaves the position lower than it was, except
\* from position len(tokens) with the engine not playing, where it leaves
\* len(tokens) - 1; rewind never leaves the position higher than it was,
\* except while playing from a position below min(words_per_flash,
\* len(tokens)), where the flash it shows leaves the position at that minimum.
C31_SeekDirection ==
    /\ (last.op = "forward" /\ last.ntokens > 0) =>
           \/ current_index >= last.index
           \/ /\ ~last.playing
              /\ last.index = last.ntokens
              /\ current_index = last.ntokens - 1
    /\ (last.op = "rewind" /\ last.ntokens > 0) =>
           \/ current_index <= last.index
           \/ /\ last.playing
              /\ last.index < Min(words_per_flash, last.ntokens)
              /\ current_index = Min(words_per_flash, last.ntokens)

\* forward was called on the longer text after its last token had been
\* shown and playback had finished: the position is one below the length
C31_Witness ==
    /\ last.op = "forward"
    /\ last.ntokens = SeekWords
    /\ ~last.playing /\ ~last.paused
    /\ last.index = last.ntokens
    /\ current_index = last.ntokens - 1

\* C32: when from some Playing state on no user operation occurs and the
\* pending timer keeps firing (weak fairness of Tick), the engine ends up
\* Finished with the position at len(tokens); and every tick that finds the
\* position below len(tokens) leaves it strictly higher.
C32_PlaybackFinishes ==
    /\ [](  (last.op = "tick" /\ last.index < last.ntokens)
            => current_index > last.index)
    /\ <>[](last.op = "tick")
           => <>[](Phase = "Finished" /\ current_index = Len(tokens))

\* the timer has fired once more after the last flash of a text of several
\* words was shown, and playback has finished at the end of the stream
C32_Witness ==
    /\ last.op = "tick"
    /\ last.playing
    /\ last.index = last.ntokens
    /\ Len(tokens) > 1
    /\ Phase = "Finished"
    /\ current_index = Len(tokens)
====
